---- MODULE Spec2Model ----
(***************************************************************************)
(* A model of the http_provider! procedural macro and of the client code   *)
(* it generates.                                                           *)
(*                                                                         *)
(* Text (paths, identifiers, parameter values) is a sequence of one-       *)
(* character strings, so that the string operations of the expanders       *)
(* (trimming, replacing, the placeholder pattern, snake-case conversion)   *)
(* are computed character by character as the code computes them.          *)
(* An Option is a sequence of length 0 (None) or 1 (Some(x)).              *)
(***************************************************************************)
EXTENDS Naturals, Sequences, FiniteSets

\* ------------------------------------------------------------------ bounds
\* Longest path template, counted in pieces of PathPieces.
MaxPieces == 4

\* ------------------------------------------------------------- characters
Lowers == <<"a","b","c","d","e","f","g","h","i","j","k","l","m",
            "n","o","p","q","r","s","t","u","v","w","x","y","z">>

Uppers == <<"A","B","C","D","E","F","G","H","I","J","K","L","M",
            "N","O","P","Q","R","S","T","U","V","W","X","Y","Z">>

Digits == <<"0","1","2","3","4","5","6","7","8","9">>

Range(s) == {s[k] : k \in DOMAIN s}

LowerSet == Range(Lowers)

UpperSet == Range(Uppers)

AlnumSet == Range(Lowers) \cup Range(Uppers) \cup Range(Digits)

is_lowercase(c) == c \in LowerSet

is_uppercase(c) == c \in UpperSet

is_alphanumeric(c) == c \in AlnumSet

to_lowercase_char(c) ==
    IF is_uppercase(c) THEN Lowers[CHOOSE k \in DOMAIN Uppers : Uppers[k] = c] ELSE c

to_uppercase_char(c) ==
    IF is_lowercase(c) THEN Uppers[CHOOSE k \in DOMAIN Lowers : Lowers[k] = c] ELSE c

to_lowercase(s) == [k \in DOMAIN s |-> to_lowercase_char(s[k])]

to_uppercase(s) == [k \in DOMAIN s |-> to_uppercase_char(s[k])]

\* ---------------------------------------------------------------- Options
None == <<>>

Some(x) == <<x>>

is_some(o) == Len(o) = 1

is_none(o) == Len(o) = 0

unwrap(o) == o[1]

\* ------------------------------------------------------- string operations
RECURSIVE Concat(_)
\* The concatenation of a sequence of texts.
Concat(ss) == IF ss = <<>> THEN <<>> ELSE Head(ss) \o Concat(Tail(ss))

RECURSIVE join(_, _)
\* [String]::join(sep)
join(ss, sep) ==
    IF ss = <<>> THEN <<>>
    ELSE IF Len(ss) = 1 THEN Head(ss)
    ELSE Head(ss) \o sep \o join(Tail(ss), sep)

starts_with(s, pat) == Len(s) >= Len(pat) /\ SubSeq(s, 1, Len(pat)) = pat

RECURSIVE trim_start_matches(_, _)
\* str::trim_start_matches(char): every leading c is removed.
trim_start_matches(s, c) ==
    IF s # <<>> /\ Head(s) = c THEN trim_start_matches(Tail(s), c) ELSE s

RECURSIVE trim_end_matches(_, _)
trim_end_matches(s, c) ==
    IF s # <<>> /\ s[Len(s)] = c
    THEN trim_end_matches(SubSeq(s, 1, Len(s) - 1), c)
    ELSE s

\* str::trim_matches(char): every leading and every trailing c is removed.
trim_matches(s, c) == trim_end_matches(trim_start_matches(s, c), c)

RECURSIVE replace(_, _, _)
\* str::replace(pat, to): the non-overlapping matches of the non-empty pat,
\* found left to right in one pass, are each replaced by to.
replace(s, pat, to) ==
    IF Len(s) < Len(pat) THEN s
    ELSE IF starts_with(s, pat)
         THEN to \o replace(SubSeq(s, Len(pat) + 1, Len(s)), pat, to)
         ELSE <<Head(s)>> \o replace(Tail(s), pat, to)

\* --------------------------------------------------- the placeholder pattern
\* PATH_PARAM_REGEX = \{([a-zA-Z0-9_]+)\}
is_param_char(c) == is_alphanumeric(c) \/ c = "_"

RECURSIVE param_chars_end(_, _)
\* The last position of the longest run of name characters starting at i
\* (i - 1 when there is none).
param_chars_end(s, i) ==
    IF i <= Len(s) /\ is_param_char(s[i]) THEN param_chars_end(s, i + 1) ELSE i - 1

\* The position of the closing brace of a match of the pattern starting at i,
\* or 0 when the pattern does not match at i.
match_end(s, i) ==
    IF i <= Len(s) /\ s[i] = "{"
    THEN LET e == param_chars_end(s, i + 1)
         IN  IF e >= i + 1 /\ e + 1 <= Len(s) /\ s[e + 1] = "}" THEN e + 1 ELSE 0
    ELSE 0

RECURSIVE captures_from(_, _)
\* Regex::captures_iter: group 1 of every leftmost non-overlapping match,
\* scanning from position i.
captures_from(s, i) ==
    IF i > Len(s) THEN <<>>
    ELSE LET e == match_end(s, i)
         IN  IF e = 0 THEN captures_from(s, i + 1)
             ELSE <<SubSeq(s, i + 1, e - 1)>> \o captures_from(s, e + 1)

captures_iter(s) == captures_from(s, 1)

RECURSIVE remove_matches_from(_, _)
\* Regex::replace_all(s, ""): every match is deleted.
remove_matches_from(s, i) ==
    IF i > Len(s) THEN <<>>
    ELSE LET e == match_end(s, i)
         IN  IF e = 0 THEN <<s[i]>> \o remove_matches_from(s, i + 1)
             ELSE remove_matches_from(s, e + 1)

replace_all_empty(s) == remove_matches_from(s, 1)

\* ------------------------------------------------------ heck::to_snake_case
RECURSIVE split_words(_, _)
\* str::split(|c| !c.is_alphanumeric()): the maximal pieces between
\* separator characters, empty pieces included; acc is the piece being read.
split_words(s, acc) ==
    IF s = <<>> THEN <<acc>>
    ELSE IF is_alphanumeric(Head(s)) THEN split_words(Tail(s), Append(acc, Head(s)))
    ELSE <<acc>> \o split_words(Tail(s), <<>>)

RECURSIVE word_pieces(_, _, _, _)
\* The case boundaries inside one word: a boundary after a lowercase run
\* followed by an uppercase letter, and before the last letter of an
\* uppercase run followed by a lowercase letter. init is where the current
\* piece starts, mode the case of the run read so far.
word_pieces(w, i, init, mode) ==
    IF i > Len(w) THEN <<>>
    ELSE IF i = Len(w) THEN <<SubSeq(w, init, Len(w))>>
    ELSE LET c == w[i]
             next == w[i + 1]
             next_mode == IF is_lowercase(c) THEN "Lowercase"
                          ELSE IF is_uppercase(c) THEN "Uppercase"
                          ELSE mode
         IN  IF next_mode = "Lowercase" /\ is_uppercase(next)
             THEN <<SubSeq(w, init, i)>> \o word_pieces(w, i + 1, i + 1, "Boundary")
             ELSE IF mode = "Uppercase" /\ is_uppercase(c) /\ is_lowercase(next)
             THEN <<SubSeq(w, init, i - 1)>> \o word_pieces(w, i + 1, i, "Boundary")
             ELSE word_pieces(w, i + 1, init, next_mode)

RECURSIVE all_pieces(_)
all_pieces(words) ==
    IF words = <<>> THEN <<>>
    ELSE word_pieces(Head(words), 1, 1, "Boundary") \o all_pieces(Tail(words))

\* The words of s, lower-cased and joined by "_".
to_snake_case(s) ==
    LET ps == all_pieces(split_words(s, <<>>))
    IN  join([k \in DOMAIN ps |-> to_lowercase(ps[k])], <<"_">>)

\* ------------------------------------------------------------ text literals
GetWord == <<"g","e","t">>

PostWord == <<"p","o","s","t">>

PutWord == <<"p","u","t">>

DeleteWord == <<"d","e","l","e","t","e">>

Underscore == <<"_">>

Slash == <<"/">>

ByPrefix == <<"b","y","_">>

AndSep == <<"_","a","n","d","_">>

\* --------------------------------------------------------------- HttpMethod
HttpMethods == {"GET", "POST", "PUT", "DELETE"}

\* A plausible slip: every method given the word of GET.
as_str_get(m) == GetWord

\* A plausible slip: the word of PUT given for POST.
as_str_swapped(m) ==
    CASE m = "GET" -> GetWord
      [] m = "POST" -> PutWord
      [] m = "PUT" -> PutWord
      [] m = "DELETE" -> DeleteWord

\* HttpMethod::as_str
as_str(m) ==
    CASE m = "GET" -> GetWord
      [] m = "POST" -> PostWord
      [] m = "PUT" -> PutWord
      [] m = "DELETE" -> DeleteWord

\* ------------------------------------------------------------- EndpointDef
\* method is an HttpMethod; every other field is an Option.
EndpointDef(method, res, path, fn_name, req, headers, query_params, path_params) ==
    [method |-> method, res |-> res, path |-> path, fn_name |-> fn_name,
     req |-> req, headers |-> headers, query_params |-> query_params,
     path_params |-> path_params]

\* ---------------------------------------------------------- FnNameExpander
\* A plausible slip: the placeholder branch taken whether or not path_params
\* is declared.
expand_fn_name_with_path_always(def, path_str) ==
    LET param_names == captures_iter(path_str)
        base_path == trim_matches(replace(replace_all_empty(path_str),
                                          <<"/","/">>, Slash), "/")
        base_part == replace(base_path, Slash, Underscore)
    IN  IF param_names # <<>>
        THEN LET params_part == ByPrefix \o join(param_names, AndSep)
             IN  IF base_part # <<>>
                 THEN base_part \o Underscore \o params_part
                 ELSE params_part
        ELSE base_part

\* A plausible slip: only the first placeholder named (captures in place of
\* captures_iter).
expand_fn_name_with_path_first(def, path_str) ==
    IF is_some(def.path_params)
    THEN LET param_names == captures_iter(path_str)
             base_path == trim_matches(replace(replace_all_empty(path_str),
                                               <<"/","/">>, Slash), "/")
             base_part == replace(base_path, Slash, Underscore)
         IN  IF param_names # <<>>
             THEN LET params_part == ByPrefix \o param_names[1]
                  IN  IF base_part # <<>>
                      THEN base_part \o Underscore \o params_part
                      ELSE params_part
             ELSE base_part
    ELSE replace(path_str, Slash, Underscore)

RECURSIVE by_each_from(_, _)
\* s from position i on, each placeholder turned into by_ and its name.
by_each_from(s, i) ==
    IF i > Len(s) THEN <<>>
    ELSE LET e == match_end(s, i)
         IN  IF e = 0 THEN <<s[i]>> \o by_each_from(s, i + 1)
             ELSE ByPrefix \o SubSeq(s, i + 1, e - 1) \o by_each_from(s, e + 1)

\* A plausible slip: each placeholder named where it stands in the path.
expand_fn_name_with_path_in_place(def, path_str) ==
    IF is_some(def.path_params)
    THEN replace(by_each_from(path_str, 1), Slash, Underscore)
    ELSE replace(path_str, Slash, Underscore)

\* The base path of expand_fn_name_with_path: the placeholders removed by
\* replace_all, then  .replace("//", "/").trim_matches('/')
base_path_of(path_str) ==
    trim_matches(replace(replace_all_empty(path_str), <<"/","/">>, Slash), "/")

\* FnNameExpander::expand_fn_name_with_path
expand_fn_name_with_path(def, path_str) ==
    IF is_some(def.path_params)
    THEN LET param_names == captures_iter(path_str)
             base_path == base_path_of(path_str)
             base_part == replace(base_path, Slash, Underscore)
         IN  IF param_names # <<>>
             THEN LET params_part ==
                          IF Len(param_names) = 1
                          THEN ByPrefix \o param_names[1]
                          ELSE ByPrefix \o join(param_names, AndSep)
                  IN  IF base_part # <<>>
                      THEN base_part \o Underscore \o params_part
                      ELSE params_part
             ELSE base_part
    ELSE replace(path_str, Slash, Underscore)

\* A plausible slip: the explicit name normalised like a derived one.
FnNameExpander_expand_normalised(def) ==
    IF is_some(def.fn_name)
    THEN to_snake_case(unwrap(def.fn_name))
    ELSE LET method_str == as_str(def.method)
         IN  IF is_some(def.path)
             THEN LET path_str == trim_start_matches(unwrap(def.path), "/")
                      path_part == expand_fn_name_with_path(def, path_str)
                  IN  to_snake_case(method_str \o Underscore \o path_part)
             ELSE method_str

\* FnNameExpander::expand
FnNameExpander_expand(def) ==
    IF is_some(def.fn_name)
    THEN unwrap(def.fn_name)
    ELSE LET method_str == as_str(def.method)
         IN  IF is_some(def.path)
             THEN LET path_str == trim_start_matches(unwrap(def.path), "/")
                      path_part == expand_fn_name_with_path(def, path_str)
                  IN  to_snake_case(method_str \o Underscore \o path_part)
             ELSE method_str

\* ---------------------------------------------------------- ParamsExpander
Param(name, ty, by_ref) == [name |-> name, ty |-> ty, by_ref |-> by_ref]

\* A plausible slip: the body pushed before the path parameters.
ParamsExpander_expand_body_first(def) ==
    (IF is_some(def.req) THEN <<Param("body", unwrap(def.req), TRUE)>> ELSE <<>>)
    \o (IF is_some(def.path_params)
        THEN <<Param("path_params", unwrap(def.path_params), TRUE)>> ELSE <<>>)
    \o (IF is_some(def.query_params)
        THEN <<Param("query_params", unwrap(def.query_params), TRUE)>> ELSE <<>>)
    \o (IF is_some(def.headers)
        THEN <<Param("headers", unwrap(def.headers), FALSE)>> ELSE <<>>)

\* ParamsExpander::expand
ParamsExpander_expand(def) ==
    (IF is_some(def.path_params)
     THEN <<Param("path_params", unwrap(def.path_params), TRUE)>> ELSE <<>>)
    \o (IF is_some(def.req) THEN <<Param("body", unwrap(def.req), TRUE)>> ELSE <<>>)
    \o (IF is_some(def.query_params)
        THEN <<Param("query_params", unwrap(def.query_params), TRUE)>> ELSE <<>>)
    \o (IF is_some(def.headers)
        THEN <<Param("headers", unwrap(def.headers), FALSE)>> ELSE <<>>)

\* The declared response type, or the unit type.
res_or_unit(def) == IF is_some(def.res) THEN unwrap(def.res) ELSE <<"(",")">>

\* ------------------------------------------------------------- UrlExpander
\* The emitted URL construction: kind "clone" is  let url = self.url.clone();
\* kind "join" is  let url = self.url.join(path).map_err(UrlConstruction)?;
\* kind "replace_join" first runs, for each name of replacements in order,
\*   path = path.replace("{name}", &path_params.name.to_string());
UrlCode(kind, path, replacements) ==
    [kind |-> kind, path |-> path, replacements |-> replacements]

\* UrlExpander::expand_with_path_params
expand_with_path_params(path) == UrlCode("replace_join", path, captures_iter(path))

\* UrlExpander::expand_without_path_params
expand_without_path_params(path) == UrlCode("join", path, <<>>)

\* UrlExpander::expand
UrlExpander_expand(def) ==
    IF is_none(def.path) THEN UrlCode("clone", <<>>, <<>>)
    ELSE IF is_some(def.path_params)
         THEN expand_with_path_params(unwrap(def.path))
         ELSE expand_without_path_params(unwrap(def.path))

\* --------------------------------------------------------- RequestExpander
\* RequestExpander::expand_method_call: the verb of the client call.
expand_method_call(def) ==
    CASE def.method = "GET" -> "get"
      [] def.method = "POST" -> "post"
      [] def.method = "PUT" -> "put"
      [] def.method = "DELETE" -> "delete"

\* A plausible slip: the headers attached before the body and the query.
expand_modifications_headers_first(def) ==
    (IF is_some(def.headers) THEN <<"headers">> ELSE <<>>)
    \o (IF is_some(def.req) THEN <<"json">> ELSE <<>>)
    \o (IF is_some(def.query_params) THEN <<"query">> ELSE <<>>)

\* RequestExpander::expand_modifications: the attachments, in emitted order.
expand_modifications(def) ==
    (IF is_some(def.req) THEN <<"json">> ELSE <<>>)
    \o (IF is_some(def.query_params) THEN <<"query">> ELSE <<>>)
    \o (IF is_some(def.headers) THEN <<"headers">> ELSE <<>>)

\* RequestExpander::expand
RequestExpander_expand(def) ==
    [method_call |-> expand_method_call(def),
     timeout |-> "self.timeout",
     modifications |-> expand_modifications(def)]

\* -------------------------------------------------------- ResponseExpander
\* A plausible slip: the body decoded whether or not res is declared.
ResponseExpander_expand_json(res) == <<"send", "handle_error", "json">>

\* ResponseExpander::expand: send, then the status check, then the decoding
\* ("json" of the declared type, or "unit").
ResponseExpander_expand(res) ==
    <<"send", "handle_error", IF is_some(res) THEN "json" ELSE "unit">>

\* ---------------------------------------------------------- MethodExpander
Signature(fn_name, params, res, error_name) ==
    [fn_name |-> fn_name, params |-> params, res |-> res, error_name |-> error_name]

\* MethodExpander::expand: one method of the impl block.
MethodExpander_expand(def, error_name) ==
    [sig |-> Signature(FnNameExpander_expand(def), ParamsExpander_expand(def),
                       res_or_unit(def), error_name),
     url_construction |-> UrlExpander_expand(def),
     request_builder |-> RequestExpander_expand(def),
     response_handler |-> ResponseExpander_expand(def.res)]

\* ----------------------------------------------------------- TraitExpander
\* A plausible slip: the declared response type left out of the trait.
expand_trait_methods_unit(endpoints, error_name) ==
    [k \in DOMAIN endpoints |->
        Signature(FnNameExpander_expand(endpoints[k]),
                  ParamsExpander_expand(endpoints[k]),
                  <<"(",")">>, error_name)]

\* TraitExpander::expand_trait_methods: one signature per endpoint.
expand_trait_methods(endpoints, error_name) ==
    [k \in DOMAIN endpoints |->
        Signature(FnNameExpander_expand(endpoints[k]),
                  ParamsExpander_expand(endpoints[k]),
                  res_or_unit(endpoints[k]), error_name)]

\* TraitExpander::expand
TraitExpander_expand(endpoints, trait_name, error_name) ==
    [name |-> trait_name, methods |-> expand_trait_methods(endpoints, error_name)]

\* ----------------------------------------------------------- ErrorExpander
\* ErrorExpander::expand: the error enum and its variants.
ErrorExpander_expand(error_name) ==
    [name |-> error_name,
     variants |-> <<"UrlConstruction", "Request", "Http", "Deserialization">>]

\* ------------------------------------------------------ HttpProviderExpander
\* The timeout, in milliseconds, of a client constructed without one.
DefaultTimeoutMs == 5000

NoEndpointsMessage == "at least one endpoint must be defined"

Ok(v) == [ok |-> TRUE, value |-> <<v>>, err |-> <<>>]

Err(e) == [ok |-> FALSE, value |-> <<>>, err |-> <<e>>]

\* MacroError
MacroError(kind, message, span) == [kind |-> kind, message |-> message, span |-> span]

\* A plausible slip: the emptiness test left out.
validate_nothing(input) == Ok("unit")

\* A check the source does not make: two endpoints of one name refused.
validate_unique(input) ==
    IF input.endpoints = <<>>
    THEN Err(MacroError("NoEndpointsConfigured", "", "struct_name"))
    ELSE IF \E k, l \in DOMAIN input.endpoints :
               /\ k # l
               /\ FnNameExpander_expand(input.endpoints[k])
                     = FnNameExpander_expand(input.endpoints[l])
    THEN Err(MacroError("NoEndpointsConfigured", "", "struct_name"))
    ELSE Ok("unit")

\* HttpProviderExpander::validate
validate(input) ==
    IF input.endpoints = <<>>
    THEN Err(MacroError("NoEndpointsConfigured", "", "struct_name"))
    ELSE Ok("unit")

\* HttpProviderExpander::trait_name
trait_name(input) == input.struct_name \o <<"T","r","a","i","t">>

\* HttpProviderExpander::expand_methods
expand_methods(input, error_name) ==
    [k \in DOMAIN input.endpoints |-> MethodExpander_expand(input.endpoints[k], error_name)]

\* HttpProviderExpander::expand_struct_impl
expand_struct_impl(input, methods) ==
    [name |-> input.struct_name,
     fields |-> <<"url", "client", "timeout">>,
     default_timeout |-> DefaultTimeoutMs,
     trait_name |-> trait_name(input),
     methods |-> methods]

\* The emitted token stream: the error type, the trait and the struct with
\* its impl blocks.
Tokens(error_type, trait_def, struct_impl) ==
    [error_type |-> error_type, trait_def |-> trait_def, struct_impl |-> struct_impl]

\* HttpProviderExpander::expand
HttpProviderExpander_expand(input) ==
    LET v == validate(input)
    IN  IF ~v.ok THEN Err(unwrap(v.err))
        ELSE LET error_name == input.struct_name \o <<"E","r","r","o","r">>
                 error_type == ErrorExpander_expand(error_name)
                 trait_def == TraitExpander_expand(input.endpoints, trait_name(input),
                                                   error_name)
                 methods == expand_methods(input, error_name)
                 struct_impl == expand_struct_impl(input, methods)
             IN  Ok(Tokens(error_type, trait_def, struct_impl))

\* MacroError::to_compile_error: the diagnostic put in place of the output.
to_compile_error(err) ==
    IF err.kind = "NoEndpointsConfigured"
    THEN [message |-> NoEndpointsMessage, span |-> err.span]
    ELSE [message |-> err.message, span |-> err.span]

\* ------------------------------------------------------------------- input
\* A token of the macro input: a string literal or an identifier (which is
\* also a type path), with its text.
LitStr(text) == [tok |-> "LitStr", text |-> text]

Ident(text) == [tok |-> "Ident", text |-> text]

Field(name, value) == [name |-> name, value |-> value]

\* A plausible slip: an unrecognised literal taken for GET.
HttpMethod_parse_default(value) ==
    IF value.tok # "Ident" THEN Err(MacroError("Syn", "expected identifier", "value"))
    ELSE LET up == to_uppercase(value.text)
         IN  CASE up = <<"P","O","S","T">> -> Ok("POST")
               [] up = <<"P","U","T">> -> Ok("PUT")
               [] up = <<"D","E","L","E","T","E">> -> Ok("DELETE")
               [] OTHER -> Ok("GET")

\* HttpMethod::parse (impl Parse for HttpMethod). The message of the last
\* arm is followed by ": " and the identifier in the source.
HttpMethod_parse(value) ==
    IF value.tok # "Ident" THEN Err(MacroError("Syn", "expected identifier", "value"))
    ELSE LET up == to_uppercase(value.text)
         IN  CASE up = <<"G","E","T">> -> Ok("GET")
               [] up = <<"P","O","S","T">> -> Ok("POST")
               [] up = <<"P","U","T">> -> Ok("PUT")
               [] up = <<"D","E","L","E","T","E">> -> Ok("DELETE")
               [] OTHER -> Err(MacroError("Syn", "Unsupported HTTP method", "value"))

\* content.parse::<LitStr>()
parse_LitStr(value) ==
    IF value.tok = "LitStr" THEN Ok(value.text)
    ELSE Err(MacroError("Syn", "expected string literal", "value"))

\* content.parse::<Ident>()
parse_Ident(value) ==
    IF value.tok = "Ident" THEN Ok(value.text)
    ELSE Err(MacroError("Syn", "expected identifier", "value"))

\* content.parse::<Type>(): an identifier is a type path, a literal is not.
parse_Type(value) ==
    IF value.tok = "Ident" THEN Ok(value.text)
    ELSE Err(MacroError("Syn", "expected type", "value"))

FieldNames ==
    {"path", "method", "fn_name", "req", "res", "headers", "query_params", "path_params"}

\* The fields that become parameters of the generated operation.
ParamFields == {"path_params", "req", "query_params", "headers"}

\* The locals of EndpointDef::parse before any field is read.
EmptyBlock ==
    [path |-> None, method |-> None, fn_name |-> None, req |-> None, res |-> None,
     headers |-> None, query_params |-> None, path_params |-> None]

\* One iteration of the loop of EndpointDef::parse: the value of field f
\* parsed as the shape its name asks for.
parse_field_value(f) ==
    CASE f.name = "path" -> parse_LitStr(f.value)
      [] f.name = "method" -> HttpMethod_parse(f.value)
      [] f.name = "fn_name" -> parse_Ident(f.value)
      [] f.name \in {"req", "res", "headers", "query_params", "path_params"} ->
            parse_Type(f.value)
      [] OTHER -> Err(MacroError("Syn", "unexpected field", "field"))

\* A plausible slip: a missing method defaulted to GET.
finish_block_default(b) ==
    Ok(EndpointDef(IF is_none(b.method) THEN "GET" ELSE unwrap(b.method), b.res, b.path,
                   b.fn_name, b.req, b.headers, b.query_params, b.path_params))

\* The end of EndpointDef::parse: the EndpointDef, or the missing-method error
\* (the message has method between backquotes).
finish_block(b) ==
    IF is_none(b.method)
    THEN Err(MacroError("Syn", "missing method", "block"))
    ELSE Ok(EndpointDef(unwrap(b.method), b.res, b.path, b.fn_name, b.req,
                        b.headers, b.query_params, b.path_params))

\* ------------------------------------------------- the generated client
\* A value of a path-parameter field: an unsigned integer or a String.
U32(n) == [ty |-> "u32", n |-> n, s |-> <<>>]

Str(s) == [ty |-> "String", n |-> 0, s |-> s]

\* The value of the unit type.
Unit == [ty |-> "()", n |-> 0, s |-> <<>>]

RECURSIVE fmt_u32(_)
\* Display of an unsigned integer: its decimal digits.
fmt_u32(n) ==
    IF n < 10 THEN <<Digits[n + 1]>>
    ELSE fmt_u32(n \div 10) \o <<Digits[(n % 10) + 1]>>

\* ToString::to_string of a field value.
to_string(v) == IF v.ty = "u32" THEN fmt_u32(v.n) ELSE v.s

\* reqwest::Url, as far as the generated code uses it: the host and the path
\* of an http URL.
Url(host, path) == [host |-> host, path |-> path]

\* The characters the URL parser percent-encodes in a path, among those the
\* model's texts hold.
percent_encode_char(c) ==
    CASE c = "{" -> <<"%","7","B">>
      [] c = "}" -> <<"%","7","D">>
      [] c = " " -> <<"%","2","0">>
      [] OTHER -> <<c>>

percent_encode_path(s) == Concat([k \in DOMAIN s |-> percent_encode_char(s[k])])

RECURSIVE index_of(_, _, _)
\* The first position at or after i where s holds c, or Len(s) + 1.
index_of(s, c, i) ==
    IF i > Len(s) \/ s[i] = c THEN i ELSE index_of(s, c, i + 1)

RECURSIVE last_index_of(_, _, _)
\* The last position at or before i where s holds c, or 0.
last_index_of(s, c, i) ==
    IF i = 0 \/ s[i] = c THEN i ELSE last_index_of(s, c, i - 1)

\* Url::join for an http base and a reference without scheme, query,
\* fragment or dot segments: an empty reference is the base; a reference
\* starting with two slashes names a host (an empty one is an error); one
\* starting with a slash replaces the path; any other replaces the last
\* segment of the base path. The path is percent-encoded.
Url_join(base, input) ==
    IF input = <<>> THEN Ok(base)
    ELSE IF starts_with(input, <<"/","/">>)
    THEN LET rest == trim_start_matches(input, "/")
             e == index_of(rest, "/", 1)
             host == SubSeq(rest, 1, e - 1)
             path == SubSeq(rest, e, Len(rest))
         IN  IF host = <<>> THEN Err("empty host")
             ELSE Ok(Url(to_lowercase(host),
                         IF path = <<>> THEN Slash ELSE percent_encode_path(path)))
    ELSE IF Head(input) = "/" THEN Ok(Url(base.host, percent_encode_path(input)))
    ELSE Ok(Url(base.host,
                SubSeq(base.path, 1, last_index_of(base.path, "/", Len(base.path)))
                \o percent_encode_path(input)))

RECURSIVE run_replacements(_, _, _)
\* The emitted statements, one per name of replacements, in order:
\*   path = path.replace(concat!("{", name, "}"), &path_params.name.to_string());
run_replacements(path, replacements, path_params) ==
    IF replacements = <<>> THEN path
    ELSE run_replacements(
            replace(path, <<"{">> \o Head(replacements) \o <<"}">>,
                    to_string(path_params[Head(replacements)])),
            Tail(replacements), path_params)

\* The emitted URL construction run on a client with base URL url: the text
\* handed to join (None when there is no join) and the URL or the join error.
run_url_construction(code, url, path_params) ==
    IF code.kind = "clone" THEN [path |-> None, url |-> Ok(url)]
    ELSE LET path == IF code.kind = "replace_join"
                     THEN run_replacements(code.path, code.replacements, path_params)
                     ELSE code.path
         IN  [path |-> Some(path), url |-> Url_join(url, path)]

RECURSIVE run_modifications(_, _)
\* The emitted attachments run in order on the arguments of the call.
run_modifications(modifications, args) ==
    IF modifications = <<>> THEN <<>>
    ELSE <<[kind |-> Head(modifications),
            value |-> CASE Head(modifications) = "json" -> args.body
                        [] Head(modifications) = "query" -> args.query_params
                        [] Head(modifications) = "headers" -> args.headers]>>
         \o run_modifications(Tail(modifications), args)

\* A plausible slip: the default timeout on every request.
run_request_builder_default(code, url, timeout, args) ==
    [verb |-> code.method_call, url |-> url, timeout |-> DefaultTimeoutMs,
     attachments |-> run_modifications(code.modifications, args)]

\* The emitted request composition run on a client with timeout timeout.
run_request_builder(code, url, timeout, args) ==
    [verb |-> code.method_call, url |-> url, timeout |-> timeout,
     attachments |-> run_modifications(code.modifications, args)]

\* The generated constructor: new(url, timeout).
Client_new(url, timeout) ==
    [url |-> url, client |-> "reqwest::Client",
     timeout |-> IF is_some(timeout) THEN unwrap(timeout) ELSE DefaultTimeoutMs]

\* ------------------------------------------------- the response handling
\* What send().await gives: the response, or the transport's error.
Response(status, body) == [status |-> status, body |-> body]

\* StatusCode::is_success
is_success(status) == 200 <= status /\ status <= 299

\* StatusCode::canonical_reason, for the codes the model's server answers.
canonical_reason(status) ==
    CASE status = 200 -> Some("OK")
      [] status = 204 -> Some("No Content")
      [] status = 301 -> Some("Moved Permanently")
      [] status = 404 -> Some("Not Found")
      [] status = 500 -> Some("Internal Server Error")
      [] OTHER -> None

\* The results of an operation: Ok(value) and the four variants of the
\* generated error enum.
Success(v) == [ok |-> TRUE, kind |-> "Ok", value |-> v]

UrlConstruction(message) == [ok |-> FALSE, kind |-> "UrlConstruction", message |-> message]

\* From<reqwest::Error>: the Request variant wraps the transport's error.
Request(err) == [ok |-> FALSE, kind |-> "Request", source |-> err]

Http(status, reason) == [ok |-> FALSE, kind |-> "Http", status |-> status, reason |-> reason]

Deserialization(message) == [ok |-> FALSE, kind |-> "Deserialization", message |-> message]

\* A plausible slip: only client and server error codes refused.
run_handle_error_from_400(response) ==
    IF response.status >= 400
    THEN LET reason == canonical_reason(response.status)
         IN  Some(Http(response.status,
                       IF is_some(reason) THEN unwrap(reason) ELSE "Unknown"))
    ELSE None

\* The emitted status check:
\*   if !status.is_success() { return Err(Http { status, reason }) }
\* with reason = status.canonical_reason().unwrap_or("Unknown"). None when
\* the check lets the response through.
run_handle_error(response) ==
    IF ~is_success(response.status)
    THEN LET reason == canonical_reason(response.status)
         IN  Some(Http(response.status,
                       IF is_some(reason) THEN unwrap(reason) ELSE "Unknown"))
    ELSE None

RECURSIVE parse_number(_, _)
\* The value of a text of decimal digits, acc being the value read so far.
parse_number(text, acc) ==
    IF text = <<>> THEN acc
    ELSE parse_number(Tail(text), acc * 10 + (index_of(Digits, Head(text), 1) - 1))

\* serde_json::from_slice for the declared response type, which the model
\* takes to be an unsigned integer: the text must be a non-empty run of
\* digits.
from_slice(text) ==
    IF text = <<>> THEN Err("EOF while parsing a value")
    ELSE IF \A k \in DOMAIN text : text[k] \in Range(Digits)
    THEN Ok(U32(parse_number(text, 0)))
    ELSE Err("expected value")

\* Response::json: the whole body is read, then decoded; a body that cannot
\* be read to its end is an error too.
Response_json(response) ==
    IF response.body.ok THEN from_slice(unwrap(response.body.value))
    ELSE Err(unwrap(response.body.err))

\* A plausible slip: the decode failure passed on by `?` as a Request error.
run_deserialized_response_request(code, response) ==
    IF code = "json"
    THEN LET decoded == Response_json(response)
         IN  IF decoded.ok THEN Success(unwrap(decoded.value))
             ELSE Request(unwrap(decoded.err))
    ELSE Success(Unit)

\* The emitted last expression on a response that passed the status check:
\*   response.json::<res>().await.map_err(|e| Deserialization(e.to_string()))
\* or Ok(()) when no res is declared.
run_deserialized_response(code, response) ==
    IF code = "json"
    THEN LET decoded == Response_json(response)
         IN  IF decoded.ok THEN Success(unwrap(decoded.value))
             ELSE Deserialization(unwrap(decoded.err))
    ELSE Success(Unit)

\* ------------------------------------- the stages of one invocation
\* Each stage takes the invocation c (its locals and where it stands), the
\* emitted method m it runs and the client cl it was called on, and gives
\* the invocation after the stage.

\* A stage is entered.
Entered(c, stage) == [c EXCEPT !.stages = Append(@, stage)]

\* The operation returns result.
Return(c, result) == [c EXCEPT !.pc = "returned", !.result = Some(result)]

\* A plausible slip: the base URL used when the join fails.
stage_url_construction_fallback(c, m, cl) ==
    LET r == run_url_construction(m.url_construction, cl.url,
                                  unwrap(c.args).path_params)
        e == [Entered(c, "url_construction") EXCEPT !.path = r.path]
    IN  [e EXCEPT !.pc = "request_builder",
                  !.url = Some(IF r.url.ok THEN unwrap(r.url.value) ELSE cl.url)]

\* #url_construction
stage_url_construction(c, m, cl) ==
    LET r == run_url_construction(m.url_construction, cl.url,
                                  unwrap(c.args).path_params)
        e == [Entered(c, "url_construction") EXCEPT !.path = r.path]
    IN  IF r.url.ok
        THEN [e EXCEPT !.pc = "request_builder", !.url = Some(unwrap(r.url.value))]
        ELSE Return(e, UrlConstruction(unwrap(r.url.err)))

\* #request_builder
stage_request_builder(c, m, cl) ==
    [Entered(c, "request_builder") EXCEPT
        !.pc = "send",
        !.request = Some(run_request_builder(m.request_builder, unwrap(c.url),
                                             cl.timeout, unwrap(c.args)))]

\* request.send(): the request is handed to the transport.
stage_send(c) ==
    [Entered(c, "send") EXCEPT !.pc = "await_send", !.sends = @ + 1]

\* A plausible slip: the send repeated once after a timeout.
stage_await_send_retry(c, outcome) ==
    IF outcome.ok
    THEN [c EXCEPT !.pc = "handle_error", !.response = Some(unwrap(outcome.value))]
    ELSE IF outcome.err = <<"operation timed out">> /\ c.sends < 2
    THEN [c EXCEPT !.pc = "send"]
    ELSE Return([c EXCEPT !.transport_error = outcome.err], Request(unwrap(outcome.err)))

\* A plausible slip: the transport's error reported as its text in
\* UrlConstruction.
stage_await_send_message(c, outcome) ==
    IF outcome.ok
    THEN [c EXCEPT !.pc = "handle_error", !.response = Some(unwrap(outcome.value))]
    ELSE Return([c EXCEPT !.transport_error = outcome.err],
                UrlConstruction(unwrap(outcome.err)))

\* .await.map_err(Error::from)?  on what the transport gives back.
stage_await_send(c, outcome) ==
    IF outcome.ok
    THEN [c EXCEPT !.pc = "handle_error", !.response = Some(unwrap(outcome.value))]
    ELSE Return([c EXCEPT !.transport_error = outcome.err], Request(unwrap(outcome.err)))

\* #handle_error
stage_handle_error(c) ==
    LET e == Entered(c, "handle_error")
        failed == run_handle_error(unwrap(c.response))
    IN  IF is_some(failed) THEN Return(e, unwrap(failed))
        ELSE [e EXCEPT !.pc = "deserialized_response"]

\* #deserialized_response
stage_deserialized_response(c, m) ==
    LET code == m.response_handler[3]
        e == IF code = "json"
             THEN [Entered(c, "json") EXCEPT !.body_reads = @ + 1]
             ELSE c
    IN  Return(e, run_deserialized_response(code, unwrap(c.response)))

\* The stage an invocation standing at a synchronous point runs next.
next_stage(c, m, cl) ==
    CASE c.pc = "url_construction" -> stage_url_construction(c, m, cl)
      [] c.pc = "request_builder" -> stage_request_builder(c, m, cl)
      [] c.pc = "send" -> stage_send(c)
      [] c.pc = "handle_error" -> stage_handle_error(c)
      [] c.pc = "deserialized_response" -> stage_deserialized_response(c, m)

\* A plausible slip: the joined URL kept in the client, where the next
\* invocation finds it as its base.
poll_moving_base(cl, c, m) ==
    LET d == next_stage(c, m, cl)
    IN  [client |-> IF is_some(d.url) THEN [cl EXCEPT !.url = unwrap(d.url)] ELSE cl,
         call |-> d]

\* The invocation c of the async method m on the client cl is polled and
\* runs its next stage. The method takes &self: the client is left as it is.
poll(cl, c, m) == [client |-> cl, call |-> next_stage(c, m, cl)]

\* ------------------------------------------------------------------- state
VARIABLES
    pc,           \* where the macro invocation stands
    struct_name,  \* HttpProviderInput.struct_name (an Option until parsed)
    endpoints,    \* HttpProviderInput.endpoints parsed so far
    cur,          \* the locals of EndpointDef::parse for the block being read
    written,      \* what was written in that block: the field names, the
                  \* parameter fields in the order written, the method literal
    output,       \* what http_provider returns to the compiler
    client,       \* the generated client struct, once constructed (an Option)
    call,         \* the invocation of a generated operation in progress
    tasks         \* the invocations several callers of one client have in
                  \* progress at once, one per caller

vars == <<pc, struct_name, endpoints, cur, written, output, client, call, tasks>>

\* No operation has been invoked. sends, body_reads and stages count and list
\* what the invocation did; overlap tells that it began while another
\* invocation on the same client was under way.
IdleCall ==
    [pc |-> "idle", op |-> 0, args |-> None, path |-> None, url |-> None,
     request |-> None, response |-> None, result |-> None,
     transport_error |-> None, sends |-> 0, body_reads |-> 0, stages |-> <<>>,
     overlap |-> FALSE]

\* Nothing written yet in the block.
NothingWritten == [names |-> {}, params |-> <<>>, method |-> None]

\* The record of the block after field f was read from it.
Write(w, f) ==
    [names |-> w.names \cup {f.name},
     params |-> IF f.name \in ParamFields /\ f.name \notin Range(w.params)
                THEN Append(w.params, f.name)
                ELSE w.params,
     method |-> IF f.name = "method" THEN Some(f.value) ELSE w.method]

NoOutput == [kind |-> "none", tokens |-> None, diagnostic |-> None]

TokensOutput(t) == [kind |-> "tokens", tokens |-> Some(t), diagnostic |-> None]

CompileError(err) ==
    [kind |-> "compile_error", tokens |-> None, diagnostic |-> Some(to_compile_error(err))]

\* ------------------------------------------------------------ input menus
\* Most endpoint blocks of one invocation.
MaxEndpoints == 2

StructName == <<"A","p","i">>

T(text) == Ident(text)

\* The field menu of an invocation with several endpoint blocks.
BlockFields ==
    { Field("path", LitStr(<<"/","u">>)),
      Field("method", Ident(<<"G","E","T">>)),
      Field("method", Ident(<<"p","o","s","t">>)),
      Field("method", Ident(<<"P","A","T","C","H">>)),
      Field("req", T(<<"R","q">>)),
      Field("res", T(<<"R","s">>)),
      Field("path_params", T(<<"P">>)),
      Field("body", T(<<"R","q">>)) }

\* The field menu of an invocation with one endpoint block: every field of
\* the grammar, method literals in several spellings, an unknown field and
\* values of the wrong shape.
AllFields ==
    { Field("path", LitStr(<<"/","u","/","{","i","}">>)),
      Field("path", Ident(<<"u">>)),
      Field("method", Ident(<<"G","E","T">>)),
      Field("method", Ident(<<"P","O","S","T">>)),
      Field("method", Ident(<<"P","U","T">>)),
      Field("method", Ident(<<"D","E","L","E","T","E">>)),
      Field("method", Ident(<<"g","e","t">>)),
      Field("method", Ident(<<"P","u","t">>)),
      Field("method", Ident(<<"P","A","T","C","H">>)),
      Field("method", Ident(<<"G","E","T","S">>)),
      Field("method", LitStr(<<"G","E","T">>)),
      Field("fn_name", Ident(<<"f">>)),
      Field("req", T(<<"R","q">>)),
      Field("res", T(<<"R","s">>)),
      Field("headers", T(<<"H">>)),
      Field("query_params", T(<<"Q">>)),
      Field("path_params", T(<<"P">>)),
      Field("body", T(<<"R","q">>)),
      Field("timeout", T(<<"H">>)) }

\* ----------------------------------------------------------------- actions
Init ==
    /\ pc = "start"
    /\ struct_name = None
    /\ endpoints = <<>>
    /\ cur = EmptyBlock
    /\ written = NothingWritten
    /\ output = NoOutput
    /\ client = None
    /\ call = IdleCall
    /\ tasks = <<>>

\* HttpProviderInput::parse reads the struct name, the comma and the brace.
ParseStructName ==
    /\ pc = "start"
    /\ struct_name' = Some(StructName)
    /\ pc' = "endpoints"
    /\ UNCHANGED <<endpoints, cur, written, output, client, call, tasks>>

\* EndpointDef::parse enters the braces of the next endpoint block.
BeginBlockUpTo(limit) ==
    /\ pc = "endpoints"
    /\ Len(endpoints) < limit
    /\ cur' = EmptyBlock
    /\ written' = NothingWritten
    /\ pc' = "block"
    /\ UNCHANGED <<struct_name, endpoints, output, client, call, tasks>>

\* One iteration of the field loop on field f. A field that fails to parse
\* ends the invocation: parse_macro_input! returns the compile error.
ParseFieldOf(f) ==
    /\ pc = "block"
    /\ written' = Write(written, f)
    /\ LET r == parse_field_value(f)
       IN  IF r.ok
           THEN /\ cur' = [cur EXCEPT ![f.name] = Some(unwrap(r.value))]
                /\ UNCHANGED <<pc, output>>
           ELSE /\ output' = CompileError(unwrap(r.err))
                /\ pc' = "parse_error"
                /\ UNCHANGED cur
    /\ UNCHANGED <<struct_name, endpoints, client, call, tasks>>

\* The block is exhausted: the EndpointDef is built, or method is missing.
EndBlock ==
    /\ pc = "block"
    /\ LET r == finish_block(cur)
       IN  IF r.ok
           THEN /\ endpoints' = Append(endpoints, unwrap(r.value))
                /\ pc' = "endpoints"
                /\ UNCHANGED output
           ELSE /\ output' = CompileError(unwrap(r.err))
                /\ pc' = "parse_error"
                /\ UNCHANGED endpoints
    /\ UNCHANGED <<struct_name, cur, written, client, call, tasks>>

\* The list of blocks is exhausted: HttpProviderInput::parse returns.
EndInput ==
    /\ pc = "endpoints"
    /\ pc' = "parsed"
    /\ UNCHANGED <<struct_name, endpoints, cur, written, output, client, call, tasks>>

HttpProviderInput == [struct_name |-> unwrap(struct_name), endpoints |-> endpoints]

\* http_provider: the expansion of the parsed input, or its compile error.
Expand ==
    /\ pc = "parsed"
    /\ LET r == HttpProviderExpander_expand(HttpProviderInput)
       IN  output' = IF r.ok THEN TokensOutput(unwrap(r.value))
                     ELSE CompileError(unwrap(r.err))
    /\ pc' = "done"
    /\ UNCHANGED <<struct_name, endpoints, cur, written, client, call, tasks>>

BeginBlock == BeginBlockUpTo(MaxEndpoints)

ParseField == \E f \in BlockFields : ParseFieldOf(f)

Next == ParseStructName \/ BeginBlock \/ ParseField \/ EndBlock \/ EndInput \/ Expand

\* An invocation with up to MaxEndpoints endpoint blocks.
Spec == Init /\ [][Next]_vars

BeginOnlyBlock == BeginBlockUpTo(1)

ParseAnyField == \E f \in AllFields : ParseFieldOf(f)

NextBlock ==
    ParseStructName \/ BeginOnlyBlock \/ ParseAnyField \/ EndBlock \/ EndInput \/ Expand

\* An invocation with at most one endpoint block, over the whole grammar.
SpecBlock == Init /\ [][NextBlock]_vars

\* ---------------------------------------------- expansion of one endpoint
\* The pieces path templates are built from: a plain segment, two
\* placeholders (one with a camel-case name), a bare separator, and a hyphen
\* with an uppercase letter.
PathPieces ==
    { <<"/","u">>, <<"/","{","i","}">>, <<"/","{","j","K","}">>, <<"/">>, <<"-","B">> }

RECURSIVE PathsOfLen(_)
PathsOfLen(n) ==
    IF n = 0 THEN {<<>>}
    ELSE {p \o q : p \in PathsOfLen(n - 1), q \in PathPieces}

\* The path of the example with two path parameters.
ExamplePath ==
    <<"/","u","s","e","r","s","/","{","u","s","e","r","_","i","d","}">>
    \o <<"/","p","o","s","t","s","/","{","p","o","s","t","_","i","d","}">>

Paths == UNION {PathsOfLen(n) : n \in 0..MaxPieces} \cup {ExamplePath}

FnNames == {<<"g","X">>}

OptionOf(S) == {None} \cup {Some(x) : x \in S}

\* The endpoints whose expansion is explored: every path with every method,
\* with and without fn_name and path_params; and, without a path, every
\* combination of the optional fields.
NameDefs ==
    {EndpointDef(m, None, Some(p), fn, None, None, None, pp) :
        m \in HttpMethods, p \in Paths, fn \in OptionOf(FnNames),
        pp \in OptionOf({<<"P">>})}
    \cup
    {EndpointDef(m, rs, None, fn, rq, h, q, pp) :
        m \in HttpMethods, rs \in OptionOf({<<"R","s">>}), fn \in OptionOf(FnNames),
        rq \in OptionOf({<<"R","q">>}), h \in OptionOf({<<"H">>}),
        q \in OptionOf({<<"Q">>}), pp \in OptionOf({<<"P">>})}

\* The locals EndpointDef::parse held when it built def d.
BlockOf(d) ==
    [path |-> d.path, method |-> Some(d.method), fn_name |-> d.fn_name, req |-> d.req,
     res |-> d.res, headers |-> d.headers, query_params |-> d.query_params,
     path_params |-> d.path_params]

\* The text of the literal HttpMethod::parse turns into method m.
MethodLiteral(m) ==
    CASE m = "GET" -> <<"G","E","T">>
      [] m = "POST" -> <<"P","O","S","T">>
      [] m = "PUT" -> <<"P","U","T">>
      [] m = "DELETE" -> <<"D","E","L","E","T","E">>

\* A record of a block that left the locals b: its fields written in the
\* order of the grammar, the method in capitals.
WrittenFor(b) ==
    { [names |-> {n \in FieldNames : is_some(b[n])},
       params |-> SelectSeq(<<"path_params", "req", "query_params", "headers">>,
                            LAMBDA n : is_some(b[n])),
       method |-> Some(Ident(MethodLiteral(unwrap(b.method))))] }

\* The input has been parsed to one endpoint.
InitName ==
    /\ pc = "parsed"
    /\ struct_name = Some(StructName)
    /\ \E d \in NameDefs :
          /\ endpoints = <<d>>
          /\ cur = BlockOf(d)
          /\ written \in WrittenFor(BlockOf(d))
    /\ output = NoOutput
    /\ client = None
    /\ call = IdleCall
    /\ tasks = <<>>

NextName == Expand

\* The expansion of one parsed endpoint, over many path templates.
SpecName == InitName /\ [][NextName]_vars

\* ------------------------------------------- calls of a generated operation
\* The endpoints of the clients whose operations are called.
CallDefs ==
    { EndpointDef("GET", Some(<<"R","s">>), Some(<<"/","u","/","{","i","}">>), None,
                  None, None, None, Some(<<"P">>)),
      EndpointDef("GET", None, Some(<<"/","{","i","}","/","{","j","}">>), None,
                  None, None, None, Some(<<"P">>)),
      EndpointDef("PUT", None, Some(<<"/","{","i","}","/","{","i","}">>), None,
                  Some(<<"R","q">>), None, None, Some(<<"P">>)),
      EndpointDef("GET", None, Some(<<"u","/","{","i","}">>), None,
                  None, None, None, None),
      EndpointDef("POST", Some(<<"R","s">>), Some(<<"/","u">>), None,
                  Some(<<"R","q">>), Some(<<"H">>), Some(<<"Q">>), None),
      EndpointDef("GET", Some(<<"R","s">>), Some(<<"/","/">>), None,
                  None, None, None, None),
      EndpointDef("DELETE", None, None, None, None, None, None, None) }
    \cup { EndpointDef("PUT", None, None, None, req, headers, query_params, None) :
               req \in OptionOf({<<"R","q">>}), headers \in OptionOf({<<"H">>}),
               query_params \in OptionOf({<<"Q">>}) }

\* The names of the fields of the path-parameter struct.
PathParamFields == {<<"i">>, <<"j">>}

\* The values a field of the path-parameter struct takes.
PathParamValues ==
    {U32(42), Str(<<>>), Str(<<"{","j","}">>), Str(<<"a","{","i","}">>)}

BaseUrls == {Url(<<"h">>, <<"/">>), Url(<<"h">>, <<"/","v","1","/","x">>)}

Timeouts == {None, Some(0), Some(30)}

\* The arguments of a call of the operation of endpoint d: a value for each
\* parameter it declares.
ArgsOf(d) ==
    { [path_params |-> pp, body |-> "body", query_params |-> "query",
       headers |-> "headers"] :
        pp \in IF is_some(d.path_params) THEN [PathParamFields -> PathParamValues]
               ELSE {[f \in PathParamFields |-> Str(<<>>)]} }

\* The status codes the server answers with: success codes with and without
\* a reason phrase, and failure codes with and without one.
Statuses == {200, 204, 299, 301, 404, 500, 599}

\* The bodies of a response: empty, the encoding of a value, a text that is
\* no encoding of one, and a body whose transfer breaks off.
Bodies ==
    {Ok(<<>>), Ok(<<"7">>), Ok(<<"4","2">>), Ok(<<"<","h",">">>),
     Err("error reading response body")}

\* The failures of the transport.
TransportErrors == {"connection refused", "operation timed out", "dns error"}

\* What a send can complete with.
SendOutcomes ==
    {Ok(Response(st, b)) : st \in Statuses, b \in Bodies}
    \cup {Err(e) : e \in TransportErrors}

\* The macro has expanded a client with one endpoint.
InitCall ==
    /\ pc = "done"
    /\ struct_name = Some(StructName)
    /\ \E d \in CallDefs :
          /\ endpoints = <<d>>
          /\ cur = BlockOf(d)
          /\ written \in WrittenFor(BlockOf(d))
          /\ output = TokensOutput(unwrap(HttpProviderExpander_expand(
                          [struct_name |-> StructName, endpoints |-> <<d>>]).value))
    /\ client = None
    /\ call = IdleCall
    /\ tasks = <<>>

macro_vars == <<pc, struct_name, endpoints, cur, written, output>>

\* The generated constructor is called.
New ==
    /\ pc = "done" /\ output.kind = "tokens"
    /\ client = None
    /\ \E url \in BaseUrls, timeout \in Timeouts :
          client' = Some(Client_new(url, timeout))
    /\ UNCHANGED <<macro_vars, call, tasks>>

\* A caller invokes the operation of endpoint k.
Invoke ==
    /\ is_some(client)
    /\ call.pc = "idle"
    /\ \E k \in DOMAIN endpoints : \E args \in ArgsOf(endpoints[k]) :
          call' = [IdleCall EXCEPT !.pc = "url_construction", !.op = k,
                                   !.args = Some(args)]
    /\ UNCHANGED <<macro_vars, client, tasks>>

\* The emitted method of the operation of endpoint k.
MethodOf(k) == unwrap(output.tokens).struct_impl.methods[k]

\* The emitted method of the operation being called.
CalledMethod == MethodOf(call.op)

\* The URL construction of the operation body: the operation returns
\* UrlConstruction when the join fails.
BuildUrl ==
    /\ call.pc = "url_construction"
    /\ call' = stage_url_construction(call, CalledMethod, unwrap(client))
    /\ UNCHANGED <<macro_vars, client, tasks>>

\* The request composition of the operation body.
BuildRequest ==
    /\ call.pc = "request_builder"
    /\ call' = stage_request_builder(call, CalledMethod, unwrap(client))
    /\ UNCHANGED <<macro_vars, client, tasks>>

\* The request is sent.
Send ==
    /\ call.pc = "send"
    /\ call' = stage_send(call)
    /\ UNCHANGED <<macro_vars, client, tasks>>

\* The send completes: with a response, or with an error of the transport.
AwaitSend ==
    /\ call.pc = "await_send"
    /\ \E outcome \in SendOutcomes : call' = stage_await_send(call, outcome)
    /\ UNCHANGED <<macro_vars, client, tasks>>

\* The status check of the operation body.
HandleError ==
    /\ call.pc = "handle_error"
    /\ call' = stage_handle_error(call)
    /\ UNCHANGED <<macro_vars, client, tasks>>

\* The last expression of the operation body: the decoding, or Ok(()).
DeserializeResponse ==
    /\ call.pc = "deserialized_response"
    /\ call' = stage_deserialized_response(call, CalledMethod)
    /\ UNCHANGED <<macro_vars, client, tasks>>

NextCall ==
    \/ New \/ Invoke \/ BuildUrl \/ BuildRequest
    \/ Send \/ AwaitSend \/ HandleError \/ DeserializeResponse

\* The operation of a generated client, from its call to its result.
SpecCall == InitCall /\ [][NextCall]_vars

\* ------------------------------------------ concurrent calls on one client
MaxTasks == 2

\* The callers that share the client.
Tasks == 1..MaxTasks

\* The endpoints of the shared client: one that names a resource in its
\* path and decodes the answer, one without path and without res.
SharedDefs ==
    << EndpointDef("GET", Some(<<"R","s">>), Some(<<"u","/","{","i","}">>), None,
                   None, None, None, Some(<<"P">>)),
       EndpointDef("POST", None, None, None, Some(<<"R","q">>), None, None, None) >>

\* Caller t asks for the resource of its own number.
ArgsOfTask(t) ==
    [path_params |-> [f \in PathParamFields |-> U32(t)], body |-> "body",
     query_params |-> "query", headers |-> "headers"]

\* The server answers a request with the last segment of its path as the
\* body, or refuses it; or the transport times out.
AnswersTo(request) ==
    LET path == request.url.path
        name == SubSeq(path, last_index_of(path, "/", Len(path)) + 1, Len(path))
    IN  {Ok(Response(200, Ok(name))), Ok(Response(404, Ok(<<>>))),
         Err("operation timed out")}

\* A client with two endpoints has been expanded and constructed; no caller
\* has invoked an operation yet.
InitConcurrent ==
    /\ pc = "done"
    /\ struct_name = Some(StructName)
    /\ endpoints = SharedDefs
    /\ cur = BlockOf(SharedDefs[Len(SharedDefs)])
    /\ written \in WrittenFor(BlockOf(SharedDefs[Len(SharedDefs)]))
    /\ output = TokensOutput(unwrap(HttpProviderExpander_expand(
                    [struct_name |-> StructName, endpoints |-> SharedDefs]).value))
    /\ \E url \in BaseUrls : client = Some(Client_new(url, None))
    /\ call = IdleCall
    /\ tasks = [t \in Tasks |-> IdleCall]

\* Caller t invokes the operation of endpoint k.
Spawn(t) ==
    /\ tasks[t].pc = "idle"
    /\ \E k \in DOMAIN endpoints :
          tasks' = [tasks EXCEPT ![t] =
                       [IdleCall EXCEPT
                           !.pc = "url_construction", !.op = k,
                           !.args = Some(ArgsOfTask(t)),
                           !.overlap = \E u \in Tasks :
                                          tasks[u].pc \notin {"idle", "returned"}]]
    /\ UNCHANGED <<macro_vars, client, call>>

\* The invocation of caller t is polled at a synchronous point.
Poll(t) ==
    /\ tasks[t].pc \in {"url_construction", "request_builder", "send",
                        "handle_error", "deserialized_response"}
    /\ LET r == poll(unwrap(client), tasks[t], MethodOf(tasks[t].op))
       IN  /\ client' = Some(r.client)
           /\ tasks' = [tasks EXCEPT ![t] = r.call]
    /\ UNCHANGED <<macro_vars, call>>

\* The send of caller t completes with an answer to its request.
Complete(t) ==
    /\ tasks[t].pc = "await_send"
    /\ \E outcome \in AnswersTo(unwrap(tasks[t].request)) :
          tasks' = [tasks EXCEPT ![t] = stage_await_send(tasks[t], outcome)]
    /\ UNCHANGED <<macro_vars, client, call>>

NextConcurrent == \E t \in Tasks : Spawn(t) \/ Poll(t) \/ Complete(t)

\* Several callers run operations of one client, interleaved at every stage.
SpecConcurrent == InitConcurrent /\ [][NextConcurrent]_vars

\* ------------------------------------------------------ reading the output
Emitted == pc = "done" /\ output.kind = "tokens"

TraitMethods == unwrap(output.tokens).trait_def.methods

ImplMethods == unwrap(output.tokens).struct_impl.methods

\* The names endpoint k's operation is emitted under (trait and impl).
NamesOf(k) == {TraitMethods[k].fn_name, ImplMethods[k].sig.fn_name}

\* The method word, from the literal of the grammar.
MethodWord(m) == to_lowercase(MethodLiteral(m))

RECURSIVE SplitOn(_, _, _)
\* The pieces of s between occurrences of c; acc is the piece being read.
SplitOn(s, c, acc) ==
    IF s = <<>> THEN <<acc>>
    ELSE IF Head(s) = c THEN <<acc>> \o SplitOn(Tail(s), c, <<>>)
    ELSE SplitOn(Tail(s), c, Append(acc, Head(s)))

\* The non-placeholder segments of a path: what is left of each segment once
\* its placeholders are taken out, empty segments dropped.
PlainSegments(path) ==
    SelectSeq(SplitOn(replace_all_empty(path), "/", <<>>), LAMBDA g : g # <<>>)

\* method word, plain segments joined by "_", then by_ and the placeholder
\* names joined by _and_; the segment part left out when there is none.
ByName(def) ==
    LET segs == PlainSegments(unwrap(def.path))
        names == captures_iter(unwrap(def.path))
    IN  MethodWord(def.method) \o Underscore
        \o (IF segs = <<>> THEN <<>> ELSE join(segs, Underscore) \o Underscore)
        \o ByPrefix \o join(names, AndSep)

\* -------------------------------------------------------------- properties
\* C1: for every endpoint with fn_name set, the operation's identifier is
\* fn_name exactly, whatever method, path and path_params are.
C1_FnNameVerbatim ==
    Emitted =>
        \A k \in DOMAIN endpoints :
            is_some(endpoints[k].fn_name) => NamesOf(k) = {unwrap(endpoints[k].fn_name)}

\* An explicit camel-case name, on an endpoint with a path and path_params,
\* is emitted unchanged.
C1_Witness ==
    /\ Emitted
    /\ endpoints[1].fn_name = Some(<<"g","X">>)
    /\ endpoints[1].path = Some(<<"/","u","/","{","i","}">>)
    /\ is_some(endpoints[1].path_params)
    /\ NamesOf(1) = {<<"g","X">>}

StripLeadingSlash(path) == IF path # <<>> /\ Head(path) = "/" THEN Tail(path) ELSE path

\* C3: with no fn_name, a path and no path_params, the identifier is the
\* method word, "_" and the path with its leading slash stripped and every
\* other "/" replaced by "_", the whole normalised to lower-snake-case.
C3_PathName ==
    Emitted =>
        \A k \in DOMAIN endpoints :
            LET d == endpoints[k]
            IN  (is_none(d.fn_name) /\ is_some(d.path) /\ is_none(d.path_params))
                => NamesOf(k) =
                     {to_snake_case(MethodWord(d.method) \o Underscore
                         \o replace(StripLeadingSlash(unwrap(d.path)), Slash, Underscore))}

\* DELETE /u/{i}/-B without path_params is emitted as delete_u_i_b.
C3_Witness ==
    /\ Emitted
    /\ endpoints[1].method = "DELETE"
    /\ is_none(endpoints[1].fn_name)
    /\ is_none(endpoints[1].path_params)
    /\ endpoints[1].path = Some(<<"/","u", "/","{","i","}", "/", "-","B">>)
    /\ NamesOf(1) = {<<"d","e","l","e","t","e","_","u","_","i","_","b">>}

\* C4: with neither fn_name nor path, the identifier is the bare lowercase
\* method word, whatever other optional fields are declared.
C4_BareMethodWord ==
    Emitted =>
        \A k \in DOMAIN endpoints :
            LET d == endpoints[k]
            IN  (is_none(d.fn_name) /\ is_none(d.path)) => NamesOf(k) = {MethodWord(d.method)}

\* POST without path, with path_params, res and headers declared, is emitted
\* as post.
C4_Witness ==
    /\ Emitted
    /\ endpoints[1].method = "POST"
    /\ is_none(endpoints[1].fn_name)
    /\ is_none(endpoints[1].path)
    /\ is_some(endpoints[1].path_params)
    /\ is_some(endpoints[1].res)
    /\ is_some(endpoints[1].headers)
    /\ NamesOf(1) = {<<"p","o","s","t">>}

\* C5: generation from an empty endpoint list fails with the message
\* "at least one endpoint must be defined", located at the client name, and
\* emits nothing.
C5_NoEndpoints ==
    (pc = "done" /\ endpoints = <<>>) =>
        /\ output.kind = "compile_error"
        /\ output.tokens = None
        /\ output.diagnostic =
              Some([message |-> "at least one endpoint must be defined",
                    span |-> "struct_name"])

\* The expansion ran on an input with no endpoint block.
C5_Witness ==
    /\ pc = "done"
    /\ endpoints = <<>>
    /\ is_some(struct_name)
    /\ output.kind = "compile_error"

\* The block read last is over: it gave an EndpointDef or failed.
BlockOver == pc = "parse_error" \/ (pc # "block" /\ Len(endpoints) = 1)

BlockYielded == pc # "parse_error" /\ pc # "block" /\ Len(endpoints) = 1

ParseFailed ==
    /\ pc = "parse_error"
    /\ endpoints = <<>>
    /\ output.kind = "compile_error"
    /\ output.tokens = None

\* C6: a block yields an EndpointDef only if it has a method field and only
\* fields of the grammar; a block without method, or with any other field,
\* fails the whole parse; every EndpointDef has a method.
C6_BlockFields ==
    /\ BlockYielded => ("method" \in written.names /\ written.names \subseteq FieldNames)
    /\ (BlockOver /\ ("method" \notin written.names \/ ~(written.names \subseteq FieldNames)))
          => ParseFailed
    /\ \A k \in DOMAIN endpoints : endpoints[k].method \in HttpMethods

\* A block of grammar fields without method has failed the parse.
C6_Witness ==
    /\ ParseFailed
    /\ written.names = {"path", "res", "headers"}
    /\ unwrap(output.diagnostic).message = "missing method"

GrammarLiterals ==
    {<<"G","E","T">>, <<"P","O","S","T">>, <<"P","U","T">>, <<"D","E","L","E","T","E">>}

\* C7 as stated: the method value of a block that yielded an EndpointDef is
\* one of the four literals GET, POST, PUT, DELETE.
C7_ExactLiteral ==
    BlockYielded =>
        /\ unwrap(written.method).tok = "Ident"
        /\ unwrap(written.method).text \in GrammarLiterals

EqIgnoreCase(a, b) ==
    Len(a) = Len(b) /\ \A k \in DOMAIN a : to_lowercase_char(a[k]) = to_lowercase_char(b[k])

IsMethodLiteral(v) == v.tok = "Ident" /\ \E g \in GrammarLiterals : EqIgnoreCase(v.text, g)

\* C7, amended: the method value is accepted only when it is an identifier
\* equal, letter case ignored, to one of the four literals; any other value
\* fails the parse and yields no EndpointDef.
C7_LiteralIgnoringCase ==
    /\ BlockYielded => IsMethodLiteral(unwrap(written.method))
    /\ (BlockOver /\ is_some(written.method) /\ ~IsMethodLiteral(unwrap(written.method)))
          => ParseFailed

\* The value PATCH has failed the parse.
C7_Witness ==
    /\ ParseFailed
    /\ written.method = Some(Ident(<<"P","A","T","C","H">>))
    /\ unwrap(output.diagnostic).message = "Unsupported HTTP method"

\* The parameters in their fixed order: the field, the parameter's name,
\* whether it is taken by reference.
FixedParams ==
    << <<"path_params", "path_params", TRUE>>, <<"req", "body", TRUE>>,
       <<"query_params", "query_params", TRUE>>, <<"headers", "headers", FALSE>> >>

ExpectedParams(d) ==
    LET declared == SelectSeq(FixedParams, LAMBDA p : is_some(d[p[1]]))
    IN  [k \in DOMAIN declared |->
            [name |-> declared[k][2], ty |-> unwrap(d[declared[k][1]]),
             by_ref |-> declared[k][3]]]

\* C8: the parameter list of every operation is the declared ones among
\* path_params, body, query_params (by reference) and headers (by value), in
\* that order, whatever order the fields were written in.
C8_ParamsFixedOrder ==
    Emitted =>
        \A k \in DOMAIN endpoints :
            /\ TraitMethods[k].params = ExpectedParams(endpoints[k])
            /\ ImplMethods[k].sig.params = ExpectedParams(endpoints[k])

\* A block written headers, query_params, req, path_params gives the
\* parameters path_params, body, query_params, headers.
C8_Witness ==
    /\ Emitted
    /\ Len(endpoints) = 1
    /\ written.params = <<"headers", "query_params", "req", "path_params">>
    /\ [k \in 1..4 |-> ImplMethods[1].sig.params[k].name]
          = <<"path_params", "body", "query_params", "headers">>

\* The identifier of endpoint d, by C1 to C4.
ExpectedName(d) ==
    IF is_some(d.fn_name) THEN unwrap(d.fn_name)
    ELSE IF is_none(d.path) THEN MethodWord(d.method)
    ELSE IF is_some(d.path_params) /\ captures_iter(unwrap(d.path)) # <<>>
    THEN to_snake_case(ByName(d))
    ELSE to_snake_case(MethodWord(d.method) \o Underscore
             \o replace(StripLeadingSlash(unwrap(d.path)), Slash, Underscore))

\* C9: the trait and the impl hold one operation per endpoint, in endpoint
\* order, with the same name, the same parameter list and the same return
\* type Result<res or unit, error type>.
C9_TraitMatchesImpl ==
    Emitted =>
        /\ Len(TraitMethods) = Len(endpoints)
        /\ Len(ImplMethods) = Len(endpoints)
        /\ \A k \in DOMAIN endpoints :
              /\ TraitMethods[k] = ImplMethods[k].sig
              /\ ImplMethods[k].sig.fn_name = ExpectedName(endpoints[k])
              /\ ImplMethods[k].sig.params = ExpectedParams(endpoints[k])
              /\ ImplMethods[k].sig.res =
                    (IF is_some(endpoints[k].res) THEN unwrap(endpoints[k].res)
                     ELSE <<"(",")">>)
              /\ ImplMethods[k].sig.error_name = unwrap(output.tokens).error_type.name

\* Two endpoints, GET /u with path_params and a body and POST with a
\* response type, are emitted as get_u and post, in that order.
C9_Witness ==
    /\ Emitted
    /\ Len(endpoints) = 2
    /\ endpoints[1].method = "GET" /\ is_some(endpoints[1].path)
    /\ is_some(endpoints[1].path_params) /\ is_some(endpoints[1].req)
    /\ endpoints[2].method = "POST" /\ is_none(endpoints[2].path)
    /\ is_some(endpoints[2].res)
    /\ TraitMethods[1].fn_name = <<"g","e","t","_","u">>
    /\ TraitMethods[2].fn_name = <<"p","o","s","t">>
    /\ TraitMethods[2].res = <<"R","s">>
    /\ Len(ImplMethods[1].sig.params) = 2

RECURSIVE substitute_from(_, _, _)
\* The template with every placeholder replaced by the text of the field of
\* its name, everything else copied, scanning from position i.
substitute_from(template, i, path_params) ==
    IF i > Len(template) THEN <<>>
    ELSE LET e == match_end(template, i)
         IN  IF e = 0
             THEN <<template[i]>> \o substitute_from(template, i + 1, path_params)
             ELSE to_string(path_params[SubSeq(template, i + 1, e - 1)])
                  \o substitute_from(template, e + 1, path_params)

\* The URL construction of the call in progress is over.
UrlBuilt == call.pc \notin {"idle", "url_construction"}

\* C10: for an endpoint with a path and path_params, the path handed to the
\* URL join is the template with every placeholder replaced by the text of
\* the field of its name, and nothing else changed.
C10_PathSubstituted ==
    (UrlBuilt /\ is_some(endpoints[call.op].path)
              /\ is_some(endpoints[call.op].path_params))
    => call.path = Some(substitute_from(unwrap(endpoints[call.op].path), 1,
                                        unwrap(call.args).path_params))

\* --------------------------------------------- properties of an invocation
Returned == call.pc = "returned"

\* The endpoint of the operation being called.
CalledDef == endpoints[call.op]

\* The operation returned after a response came back.
ReturnedOn(response) == Returned /\ call.response = Some(response)

\* The reason phrase of the codes that have one, "Unknown" for the others.
ReasonOf(status) ==
    CASE status = 301 -> "Moved Permanently"
      [] status = 404 -> "Not Found"
      [] status = 500 -> "Internal Server Error"
      [] OTHER -> "Unknown"

\* C11: a response whose status is outside the success range gives the error
\* Http with that status and its reason phrase, or "Unknown" when the code
\* has none; the body is not read, so the error depends on the status alone,
\* whether or not res is declared.
C11_HttpError ==
    \A response \in {unwrap(o.value) : o \in {x \in SendOutcomes : x.ok}} :
        (ReturnedOn(response) /\ ~(response.status \in 200..299))
        => /\ call.result = Some([ok |-> FALSE, kind |-> "Http",
                                  status |-> response.status,
                                  reason |-> ReasonOf(response.status)])
           /\ call.body_reads = 0

\* A 599 answer with a body that would decode, to an operation that declares
\* res, has given Http with the reason Unknown.
C11_Witness ==
    /\ Returned
    /\ is_some(CalledDef.res)
    /\ call.response = Some(Response(599, Ok(<<"4","2">>)))
    /\ unwrap(call.result).kind = "Http"
    /\ unwrap(call.result).status = 599
    /\ unwrap(call.result).reason = "Unknown"

\* C12: an operation whose endpoint declares no res gives the unit success
\* on a success status without reading the body, and never returns
\* Deserialization.
C12_UnitWithoutDecode ==
    (call.pc # "idle" /\ is_none(CalledDef.res))
    => /\ call.body_reads = 0
       /\ is_some(call.result) => unwrap(call.result).kind # "Deserialization"
       /\ (Returned /\ is_some(call.response)
                    /\ unwrap(call.response).status \in 200..299)
             => call.result = Some([ok |-> TRUE, kind |-> "Ok", value |-> Unit])

\* A 204 answer with an empty body, to an operation without res, has given
\* the unit success.
C12_Witness ==
    /\ Returned
    /\ is_none(CalledDef.res)
    /\ call.response = Some(Response(204, Ok(<<>>)))
    /\ unwrap(call.result).ok
    /\ unwrap(call.result).value = Unit

\* C13: an operation whose endpoint declares res decodes the body of a
\* success response: the decoded value is the success result, a failure to
\* decode gives Deserialization with the failure's message; Deserialization
\* is returned only after a success status was seen.
C13_DecodedOrDeserialization ==
    /\ (Returned /\ call.op # 0 /\ is_some(CalledDef.res) /\ is_some(call.response)
                 /\ unwrap(call.response).status \in 200..299)
          => LET decoded == Response_json(unwrap(call.response))
             IN  /\ call.body_reads = 1
                 /\ decoded.ok =>
                       call.result = Some([ok |-> TRUE, kind |-> "Ok",
                                           value |-> unwrap(decoded.value)])
                 /\ ~decoded.ok =>
                       call.result = Some([ok |-> FALSE, kind |-> "Deserialization",
                                           message |-> unwrap(decoded.err)])
    /\ (is_some(call.result) /\ unwrap(call.result).kind = "Deserialization")
          => /\ is_some(call.response)
             /\ unwrap(call.response).status \in 200..299
             /\ "handle_error" \in Range(call.stages)

\* A 200 answer whose body is no encoding of a value has given
\* Deserialization with the decoder's message.
C13_Witness ==
    /\ Returned
    /\ is_some(CalledDef.res)
    /\ call.response = Some(Response(200, Ok(<<"<","h",">">>)))
    /\ call.result = Some(Deserialization("expected value"))

\* C14: when the send fails in the transport, the operation returns Request
\* wrapping the transport's error, and neither the status check nor the
\* decoding is run.
C14_TransportFailure ==
    is_some(call.transport_error)
    => /\ Returned
       /\ call.result = Some([ok |-> FALSE, kind |-> "Request",
                              source |-> unwrap(call.transport_error)])
       /\ call.response = None
       /\ "handle_error" \notin Range(call.stages)
       /\ "json" \notin Range(call.stages)
       /\ call.body_reads = 0

\* A send that timed out has given Request with that error.
C14_Witness ==
    /\ Returned
    /\ call.transport_error = Some("operation timed out")
    /\ unwrap(call.result).kind = "Request"
    /\ call.stages = <<"url_construction", "request_builder", "send">>

ResultKinds == {"Ok", "UrlConstruction", "Request", "Http", "Deserialization"}

\* No stage of the invocation has failed.
NothingFailed ==
    /\ is_some(call.url)
    /\ call.sends = 1
    /\ call.transport_error = None
    /\ is_some(call.response)
    /\ unwrap(call.response).status \in 200..299
    /\ is_some(CalledDef.res) => Response_json(unwrap(call.response)).ok

\* C15: an invocation ends with exactly one outcome, the success value or
\* one of the four errors; a failure of a stage is returned and not
\* swallowed; the request is sent at most once; a result, once returned,
\* stays.
C15_OneOutcome ==
    /\ [](/\ call.sends <= 1
          /\ Returned <=> is_some(call.result)
          /\ is_some(call.result) =>
                /\ unwrap(call.result).kind \in ResultKinds
                /\ unwrap(call.result).ok <=> unwrap(call.result).kind = "Ok"
                /\ unwrap(call.result).ok <=> NothingFailed)
    /\ [][is_some(call.result) => call' = call]_vars

\* A send that timed out was not repeated.
C15_Witness ==
    /\ Returned
    /\ call.transport_error = Some("operation timed out")
    /\ call.sends = 1
    /\ ~unwrap(call.result).ok

\* C16: a client constructed without a timeout holds 5000 ms, one
\* constructed with t holds t; every request built by an operation carries
\* the client's timeout; the client does not change after construction.
C16_ClientTimeout ==
    /\ [](/\ \A url \in BaseUrls, t \in Timeouts :
                Client_new(url, t).timeout = (IF t = None THEN 5000 ELSE t[1])
          /\ is_some(client) =>
                \E url \in BaseUrls, t \in Timeouts : client = Some(Client_new(url, t))
          /\ is_some(call.request) =>
                unwrap(call.request).timeout = unwrap(client).timeout)
    /\ [][is_some(client) => client' = client]_vars

\* A put request of a client constructed with 30 ms carries 30 ms.
C16_Witness ==
    /\ is_some(call.request)
    /\ unwrap(client).timeout = 30
    /\ unwrap(call.request).verb = "put"
    /\ unwrap(call.request).timeout = 30

\* The stages in their order; the last is entered only to decode.
StageOrder == <<"url_construction", "request_builder", "send", "handle_error", "json">>

\* C19: the stages run in the order URL construction, request composition,
\* send, status check, decoding; a failed URL construction returns
\* UrlConstruction with the join's message and no request is built or sent;
\* an endpoint without path uses the base URL as it is and never returns
\* UrlConstruction.
C19_StageOrder ==
    /\ \E n \in 0..Len(StageOrder) : call.stages = SubSeq(StageOrder, 1, n)
    /\ (is_some(call.result) /\ unwrap(call.result).kind = "UrlConstruction")
          => /\ call.stages = <<"url_construction">>
             /\ ~Url_join(unwrap(client).url, unwrap(call.path)).ok
             /\ unwrap(call.result).message
                   = unwrap(Url_join(unwrap(client).url, unwrap(call.path)).err)
             /\ call.request = None
             /\ call.sends = 0
    /\ (call.pc \notin {"idle", "url_construction"} /\ is_some(call.path)
           /\ ~Url_join(unwrap(client).url, unwrap(call.path)).ok)
          => (Returned /\ unwrap(call.result).kind = "UrlConstruction")
    /\ (call.pc \notin {"idle", "url_construction"} /\ is_none(CalledDef.path))
          => /\ call.url = Some(unwrap(client).url)
             /\ is_some(call.result) => unwrap(call.result).kind # "UrlConstruction"

\* The path // of an endpoint without path_params failed to join: the
\* operation returned UrlConstruction before any request was built.
C19_Witness ==
    /\ Returned
    /\ is_none(CalledDef.path_params)
    /\ call.path = Some(<<"/","/">>)
    /\ call.result = Some(UrlConstruction("empty host"))
    /\ call.stages = <<"url_construction">>
    /\ call.request = None

\* The attachments in their order: the field, the attachment, the argument.
FixedAttachments ==
    << <<"req", "json", "body">>, <<"query_params", "query", "query_params">>,
       <<"headers", "headers", "headers">> >>

\* The verb of each method.
VerbOf == [GET |-> "get", POST |-> "post", PUT |-> "put", DELETE |-> "delete"]

ExpectedAttachments(d, args) ==
    LET declared == SelectSeq(FixedAttachments, LAMBDA a : is_some(d[a[1]]))
    IN  [k \in DOMAIN declared |->
            [kind |-> declared[k][2], value |-> args[declared[k][3]]]]

\* C20: the request has the verb of the endpoint's method and, attached in
\* this order and each only when its field is declared, the JSON body, the
\* query parameters and the headers.
C20_AttachmentOrder ==
    is_some(call.request)
    => /\ unwrap(call.request).verb = VerbOf[CalledDef.method]
       /\ unwrap(call.request).attachments
             = ExpectedAttachments(CalledDef, unwrap(call.args))

\* A put with req, query_params and headers declared carries the three, the
\* headers last.
C20_Witness ==
    /\ is_some(call.request)
    /\ CalledDef.method = "PUT"
    /\ is_some(CalledDef.req) /\ is_some(CalledDef.query_params)
    /\ is_some(CalledDef.headers)
    /\ [k \in 1..3 |-> unwrap(call.request).attachments[k].kind]
          = <<"json", "query", "headers">>

\* The name with every placeholder named where it stands: the path with its
\* leading slash stripped, each placeholder turned into by_ and its name,
\* every "/" into "_", after the method word.
InPlaceName(def) ==
    MethodWord(def.method) \o Underscore
    \o replace(by_each_from(StripLeadingSlash(unwrap(def.path)), 1), Slash, Underscore)

\* An endpoint without fn_name, with path_params and a path of several
\* placeholders.
SeveralPlaceholders(d) ==
    /\ is_none(d.fn_name) /\ is_some(d.path) /\ is_some(d.path_params)
    /\ Len(captures_iter(unwrap(d.path))) >= 2

OutcomeOf(c) == IF is_some(c.transport_error) THEN Err(unwrap(c.transport_error))
                ELSE Ok(unwrap(c.response))

RECURSIVE RunAlone(_, _, _, _)
\* The result of invocation c run to its end with no other invocation in
\* between, its send completing with outcome.
RunAlone(c, m, cl, outcome) ==
    IF c.pc = "returned" THEN c.result
    ELSE IF c.pc = "await_send" THEN RunAlone(stage_await_send(c, outcome), m, cl, outcome)
    ELSE RunAlone(next_stage(c, m, cl), m, cl, outcome)

\* The invocation of caller t as it was when it began.
Begun(t) ==
    [IdleCall EXCEPT !.pc = "url_construction", !.op = tasks[t].op,
                     !.args = tasks[t].args]

\* C17: when several operations of one client run interleaved, none changes
\* the client's base URL, timeout or transport handle, and each caller gets
\* the result its operation gives when run alone on the same answer; a
\* decoded answer is the answer to the caller's own request.
C17_Interleaved ==
    /\ [][client' = client]_vars
    /\ [](\A t \in DOMAIN tasks :
            tasks[t].pc = "returned"
            => /\ tasks[t].result
                    = RunAlone(Begun(t), MethodOf(tasks[t].op), unwrap(client),
                               OutcomeOf(tasks[t]))
               /\ (unwrap(tasks[t].result).ok /\ tasks[t].op = 1)
                     => unwrap(tasks[t].result).value = U32(t))

\* Two callers ran the same operation, the second beginning while the first
\* was under way, and each got the resource of its own number.
C17_Witness ==
    /\ \A t \in 1..2 :
          /\ tasks[t].pc = "returned" /\ tasks[t].op = 1
          /\ tasks[t].result = Some(Success(U32(t)))
    /\ tasks[2].overlap
    /\ unwrap(client).timeout = DefaultTimeoutMs

\* The text holds two separators in a row.
HasDoubledSeparator(text) ==
    \E k \in 1..(Len(text) - 1) : text[k] = "/" /\ text[k + 1] = "/"

\* The base path the name of endpoint d is derived from.
BasePathOf(d) == base_path_of(trim_start_matches(unwrap(d.path), "/"))

\* C21: for an endpoint with path_params, the base path text left once the
\* placeholders are removed has no doubled separator and no leading or
\* trailing separator, for every path template.
C21_BasePathClean ==
    Emitted =>
        \A k \in DOMAIN endpoints :
            LET d == endpoints[k]
            IN  (is_none(d.fn_name) /\ is_some(d.path) /\ is_some(d.path_params))
                => /\ ~HasDoubledSeparator(BasePathOf(d))
                   /\ BasePathOf(d) # <<>> =>
                         /\ Head(BasePathOf(d)) # "/"
                         /\ BasePathOf(d)[Len(BasePathOf(d))] # "/"

\* The endpoints are two, distinct, and one name is derived for both.
Collision ==
    /\ Len(endpoints) = 2
    /\ endpoints[1] # endpoints[2]
    /\ ExpectedName(endpoints[1]) = ExpectedName(endpoints[2])

\* C22: for two distinct endpoints of equal identifiers the expansion reports
\* no diagnostic and emits one operation per endpoint, both under that name,
\* in the trait and in the impl.
C22_CollisionUndetected ==
    (pc = "done" /\ Collision)
    => /\ output.kind = "tokens"
       /\ output.diagnostic = None
       /\ Len(TraitMethods) = 2
       /\ Len(ImplMethods) = 2
       /\ \A k \in 1..2 : NamesOf(k) = {ExpectedName(endpoints[1])}

\* GET /u decoding a response and GET /u with path_params and a body are
\* both emitted as get_u.
C22_Witness ==
    /\ Emitted
    /\ Len(endpoints) = 2
    /\ endpoints[1].method = "GET" /\ endpoints[2].method = "GET"
    /\ is_some(endpoints[1].res) /\ is_none(endpoints[1].path_params)
    /\ is_some(endpoints[2].path_params) /\ is_some(endpoints[2].req)
    /\ TraitMethods[1].fn_name = <<"g","e","t","_","u">>
    /\ TraitMethods[2].fn_name = <<"g","e","t","_","u">>
    /\ ImplMethods[1].sig.fn_name = ImplMethods[2].sig.fn_name

\* C23: for a template with two or more placeholders the path handed to the
\* URL join is the template with all the placeholders replaced at once, each
\* by the text of its own field; text put in for one placeholder is not
\* touched again, whatever it holds.
C23_ReplacedAtOnce ==
    (UrlBuilt /\ is_some(endpoints[call.op].path)
              /\ is_some(endpoints[call.op].path_params)
              /\ Len(captures_iter(unwrap(endpoints[call.op].path))) >= 2)
    => unwrap(call.path) = substitute_from(unwrap(endpoints[call.op].path), 1,
                                           unwrap(call.args).path_params)

\* The identifier is the word alone or begins with the word and "_".
NamedAfter(name, word) == name = word \/ starts_with(name, word \o Underscore)

\* C24: the identifier derived for an endpoint without fn_name is its method
\* word alone or begins with that word and "_", and is neither for the word
\* of another method; so endpoints without fn_name whose methods differ have
\* different identifiers, whatever their paths and path_params.
C24_MethodsApart ==
    Emitted =>
        \A k \in DOMAIN endpoints :
            is_none(endpoints[k].fn_name)
            => \A name \in NamesOf(k) :
                  /\ NamedAfter(name, MethodWord(endpoints[k].method))
                  /\ \A m \in HttpMethods \ {endpoints[k].method} :
                        ~NamedAfter(name, MethodWord(m))

\* PUT on a path of only placeholders is emitted as put_by_i_and_j_k, which
\* no POST endpoint is named.
C24_Witness ==
    /\ Emitted
    /\ endpoints[1].method = "PUT"
    /\ is_none(endpoints[1].fn_name)
    /\ is_some(endpoints[1].path_params)
    /\ endpoints[1].path = Some(<<"/","{","i","}", "/","{","j","K","}">>)
    /\ NamesOf(1) = {<<"p","u","t","_","b","y","_","i","_","a","n","d","_","j","_","k">>}

====
